---- MODULE Spec2Model ----
(***************************************************************************)
(* ZKSession (session/session.go): the processing loop manage, which reads *)
(* connection-state signals from the current gozk connection, redials on   *)
(* session expiry and broadcasts lifecycle events to subscribers; the      *)
(* subscriber registry (Subscribe, notifySubscribers); and the pass-through*)
(* methods, which forward to the current connection.                       *)
(*                                                                         *)
(* The gozk transport is the environment: it delivers signals on the       *)
(* stream of every open connection, answers Redial with success or         *)
(* failure, and surfaces Closed on the stream of a connection that is      *)
(* closed.  Goroutines interleave at every lock, send, receive and         *)
(* unsynchronised read of a shared field.                                  *)
(***************************************************************************)
EXTENDS Naturals, Sequences, FiniteSets, TLC

\* Signals the transport delivers on its own over a whole run.
MaxSignals == 3
\* Pass-through calls made by callers over a whole run.
MaxCalls == 1
\* Signals the transport delivers over a run that has pass-through callers.
MaxCallSignals == 2

\* Subscriber sinks (chan<- ZKSessionEvent) and caller goroutines.
Sinks == {"s1", "s2"}
Callers == {"c1"}

\* zookeeper.Event.State values switched on by manage.
Signals ==
  {"STATE_EXPIRED_SESSION", "STATE_AUTH_FAILED", "STATE_CONNECTING",
   "STATE_ASSOCIATING", "STATE_CONNECTED", "STATE_CLOSED"}

\* ZKSessionEvent values.
Events ==
  {"SessionClosed", "SessionDisconnected", "SessionReconnected",
   "SessionExpiredReconnected", "SessionFailed"}

\* Connections are numbered in dial order; every redial follows a consumed
\* STATE_EXPIRED_SESSION, so at most MaxSignals + 1 connections exist.
ConnIds == 1..(MaxSignals + 1)

\* Pass-through operations: Close, and "Get" standing for every other
\* method that reads s.conn and calls through.
Ops == {"Get", "Close"}

VARIABLES
  conn,          \* s.conn: the current handle
  events,        \* s.events: the stream manage reads
  clientID,      \* s.opts.clientID: the resumption token (0: the constructor's)
  mu,            \* s.mu: "free", "manage" or the sink whose Subscribe holds it
  subscriptions, \* s.subscriptions
  expired,       \* manage's local flag
  pc,            \* manage's position
  ev,            \* the event notifySubscribers was called with
  after,         \* where manage continues after notifySubscribers returns
  idx,           \* notifySubscribers' position in s.subscriptions
  newConn,       \* the conn (and its stream) Redial returned
  stream,        \* per connection, the signals pending on its stream
  closed,        \* per connection, whether Close has been called on it
  nextConn,      \* the next connection a dial creates
  dialToken,     \* per connection, the token it was dialed with
  delivered,     \* signals the transport has delivered on its own
  ready,         \* per sink, whether its consumer is blocked receiving
  received,      \* per sink, the events received
  spc,           \* per sink, the position of its Subscribe call
  subAt,         \* per sink, the broadcasts begun before it was appended
  emitted,       \* the events manage has called notifySubscribers with
  consumed,      \* the signals manage has consumed, each with its outcome
  redials,       \* the calls of zookeeper.Redial made
  pre,           \* <<conn, events, clientID>> when the last expiry was consumed
  loopClosed,    \* the connections manage has closed
  closeErrs,     \* those of them whose Close returned an error to manage
  cpc,           \* per caller, the position of its pass-through call
  cop,           \* per caller, the operation called
  ch,            \* per caller, the handle it read from s.conn
  raced,         \* per caller, whether it read s.conn inside manage's swap section
  calls,         \* pass-through calls begun
  closeDone      \* whether a caller's Close() has returned without error

sessVars == <<conn, events, clientID>>
loopVars == <<expired, pc, ev, after, idx, newConn>>
netVars == <<stream, closed, nextConn, dialToken, delivered>>
sinkVars == <<ready, received, spc, subAt>>
histVars == <<emitted, consumed, redials, pre, loopClosed, closeErrs>>
callVars == <<cpc, cop, ch, raced, calls, closeDone>>

vars ==
  <<sessVars, mu, subscriptions, loopVars, netVars, sinkVars, histVars, callVars>>

\* NewSessionWithOpts: Create() dialed connection 1 with the constructor's
\* token and manage has been started.
Init ==
  /\ conn = 1
  /\ events = 1
  /\ clientID = 0
  /\ mu = "free"
  /\ subscriptions = <<>>
  /\ expired = FALSE
  /\ pc = "recv"
  /\ ev = "none"
  /\ after = "none"
  /\ idx = 0
  /\ newConn = 0
  /\ stream = [c \in ConnIds |-> <<>>]
  /\ closed = [c \in ConnIds |-> FALSE]
  /\ nextConn = 2
  /\ dialToken = [c \in ConnIds |-> 0]
  /\ delivered = 0
  /\ ready = [i \in Sinks |-> FALSE]
  /\ received = [i \in Sinks |-> <<>>]
  /\ spc = [i \in Sinks |-> "idle"]
  /\ subAt = [i \in Sinks |-> 0]
  /\ emitted = <<>>
  /\ consumed = <<>>
  /\ redials = 0
  /\ pre = <<1, 1, 0>>
  /\ loopClosed = {}
  /\ closeErrs = {}
  /\ cpc = [t \in Callers |-> "idle"]
  /\ cop = [t \in Callers |-> "Get"]
  /\ ch = [t \in Callers |-> 0]
  /\ raced = [t \in Callers |-> FALSE]
  /\ calls = 0
  /\ closeDone = FALSE

(***************************************************************************)
(* The transport (gozk), as the session sees it.                           *)
(***************************************************************************)

\* conn.ClientId(): the token of a dialed connection.  Every dial yields a
\* token of its own, distinct from the constructor's (0).
ClientId(c) == c

\* conn.Close(): the first Close of a connection surfaces STATE_CLOSED on
\* its stream; a repeated Close returns an error and changes nothing.
ConnClose(c) ==
  /\ closed' = [closed EXCEPT ![c] = TRUE]
  /\ stream' = IF closed[c] THEN stream
               ELSE [stream EXCEPT ![c] = Append(@, "STATE_CLOSED")]

\* The transport delivers a signal on the stream of an open connection.
Deliver(c, sig) ==
  /\ delivered < MaxSignals
  /\ c < nextConn
  /\ ~closed[c]
  /\ stream' = [stream EXCEPT ![c] = Append(@, sig)]
  /\ delivered' = delivered + 1
  /\ UNCHANGED <<sessVars, mu, subscriptions, loopVars, closed, nextConn,
                 dialToken, sinkVars, histVars, callVars>>

(***************************************************************************)
(* Subscribers.                                                            *)
(***************************************************************************)

\* Broadcasts that have acquired s.mu: every emitted event but one whose
\* notifySubscribers call still waits for the lock.
BroadcastsBegun == Len(emitted) - (IF pc = "notify_lock" THEN 1 ELSE 0)

\* A caller enters Subscribe.
SubscribeCall(i) ==
  /\ spc[i] = "idle"
  /\ spc' = [spc EXCEPT ![i] = "lock"]
  /\ UNCHANGED <<sessVars, mu, subscriptions, loopVars, netVars, ready,
                 received, subAt, histVars, callVars>>

\* Subscribe without s.mu.Lock(): the append can fall inside a broadcast.
SubscribeLock_NoMutex(i) ==
  /\ spc[i] = "lock"
  /\ spc' = [spc EXCEPT ![i] = "append"]
  /\ UNCHANGED <<sessVars, mu, subscriptions, loopVars, netVars, ready,
                 received, subAt, histVars, callVars>>

\* s.mu.Lock() in Subscribe.
SubscribeLock(i) ==
  /\ spc[i] = "lock"
  /\ mu = "free"
  /\ mu' = i
  /\ spc' = [spc EXCEPT ![i] = "append"]
  /\ UNCHANGED <<sessVars, subscriptions, loopVars, netVars, ready, received,
                 subAt, histVars, callVars>>

\* The append, and the deferred s.mu.Unlock().
SubscribeAppend(i) ==
  /\ spc[i] = "append"
  /\ subscriptions' = Append(subscriptions, i)
  /\ subAt' = [subAt EXCEPT ![i] = BroadcastsBegun]
  /\ mu' = "free"
  /\ spc' = [spc EXCEPT ![i] = "done"]
  /\ UNCHANGED <<sessVars, loopVars, netVars, ready, received, histVars,
                 callVars>>

\* The consumer of sink i blocks in a receive on its channel.  A receive
\* begun before the sink is registered meets no send until then, so it is
\* taken to begin once the sink is in the list.
ConsumerReceive(i) ==
  /\ ~ready[i]
  /\ spc[i] = "done"
  /\ ready' = [ready EXCEPT ![i] = TRUE]
  /\ UNCHANGED <<sessVars, mu, subscriptions, loopVars, netVars, received,
                 spc, subAt, histVars, callVars>>

(***************************************************************************)
(* notifySubscribers, as called by manage.                                 *)
(***************************************************************************)

\* manage calls notifySubscribers(e) and continues at k when it returns.
Notify(e, k) ==
  /\ ev' = e
  /\ after' = k
  /\ pc' = "notify_lock"
  /\ emitted' = Append(emitted, e)

\* notifySubscribers entered without taking s.mu.
NotifyLock_NoMutex ==
  /\ pc = "notify_lock"
  /\ idx' = 1
  /\ pc' = "notify_send"
  /\ UNCHANGED <<sessVars, mu, subscriptions, expired, ev, after, newConn,
                 netVars, sinkVars, histVars, callVars>>

\* s.mu.Lock() in notifySubscribers.
NotifyLock ==
  /\ pc = "notify_lock"
  /\ mu = "free"
  /\ mu' = "manage"
  /\ idx' = 1
  /\ pc' = "notify_send"
  /\ UNCHANGED <<sessVars, subscriptions, expired, ev, after, newConn, netVars,
                 sinkVars, histVars, callVars>>

\* A non-blocking send: a sink that is not receiving is skipped.
NotifySend_Drop ==
  /\ pc = "notify_send"
  /\ idx <= Len(subscriptions)
  /\ IF ready[subscriptions[idx]]
       THEN /\ received' =
                 [received EXCEPT ![subscriptions[idx]] = Append(@, ev)]
            /\ ready' = [ready EXCEPT ![subscriptions[idx]] = FALSE]
       ELSE UNCHANGED <<received, ready>>
  /\ idx' = idx + 1
  /\ UNCHANGED <<sessVars, mu, subscriptions, expired, pc, ev, after, newConn,
                 netVars, spc, subAt, histVars, callVars>>

\* subscriber <- event: a blocking send to the next sink of the list.
NotifySend ==
  /\ pc = "notify_send"
  /\ idx <= Len(subscriptions)
  /\ ready[subscriptions[idx]]
  /\ received' = [received EXCEPT ![subscriptions[idx]] = Append(@, ev)]
  /\ ready' = [ready EXCEPT ![subscriptions[idx]] = FALSE]
  /\ idx' = idx + 1
  /\ UNCHANGED <<sessVars, mu, subscriptions, expired, pc, ev, after, newConn,
                 netVars, spc, subAt, histVars, callVars>>

\* notifySubscribers returning without its deferred s.mu.Unlock().
NotifyReturn_NoUnlock ==
  /\ pc = "notify_send"
  /\ idx > Len(subscriptions)
  /\ pc' = IF after = "done" THEN "done" ELSE "recv"
  /\ expired' = IF after = "clear" THEN FALSE ELSE expired
  /\ UNCHANGED <<sessVars, mu, subscriptions, ev, after, idx, newConn, netVars,
                 sinkVars, histVars, callVars>>

\* The end of the range loop: the deferred s.mu.Unlock(), and manage goes on
\* after the call: it returns, loops, or clears expired and loops.
NotifyReturn ==
  /\ pc = "notify_send"
  /\ idx > Len(subscriptions)
  /\ mu' = "free"
  /\ pc' = IF after = "done" THEN "done" ELSE "recv"
  /\ expired' = IF after = "clear" THEN FALSE ELSE expired
  /\ UNCHANGED <<sessVars, subscriptions, ev, after, idx, newConn, netVars,
                 sinkVars, histVars, callVars>>

(***************************************************************************)
(* manage.                                                                 *)
(***************************************************************************)

\* case event := <-s.events with event.State = sig.
Receives(sig) ==
  /\ pc = "recv"
  /\ stream[events] # <<>>
  /\ Head(stream[events]) = sig

\* The signal leaves the stream; the history records it with the outcome of
\* its redial and the event emitted for it.
Consume(sig, rd, out) ==
  /\ stream' = [stream EXCEPT ![events] = Tail(@)]
  /\ consumed' = Append(consumed, [sig |-> sig, redial |-> rd, out |-> out])

\* The history's last signal gets the outcome of its redial.
Resolve(rd, out) ==
  consumed' = [consumed EXCEPT ![Len(consumed)] =
                 [sig |-> @.sig, redial |-> rd, out |-> out]]

\* STATE_EXPIRED_SESSION without expired = true.
RecvExpired_NoFlag ==
  /\ Receives("STATE_EXPIRED_SESSION")
  /\ Consume("STATE_EXPIRED_SESSION", "pending", "none")
  /\ pc' = "redial"
  /\ pre' = <<conn, events, clientID>>
  /\ UNCHANGED <<sessVars, mu, subscriptions, expired, ev, after, idx, newConn,
                 closed, nextConn, dialToken, delivered, sinkVars, emitted,
                 redials, loopClosed, closeErrs, callVars>>

\* case zookeeper.STATE_EXPIRED_SESSION: expired = true, then Redial.
RecvExpired ==
  /\ Receives("STATE_EXPIRED_SESSION")
  /\ Consume("STATE_EXPIRED_SESSION", "pending", "none")
  /\ expired' = TRUE
  /\ pc' = "redial"
  /\ pre' = <<conn, events, clientID>>
  /\ UNCHANGED <<sessVars, mu, subscriptions, ev, after, idx, newConn, closed,
                 nextConn, dialToken, delivered, sinkVars, emitted, redials,
                 loopClosed, closeErrs, callVars>>

\* zookeeper.Redial(servers, recvTimeout, s.opts.clientID) returns a new
\* connection and its stream.
RedialOk ==
  /\ pc = "redial"
  /\ newConn' = nextConn
  /\ nextConn' = nextConn + 1
  /\ dialToken' = [dialToken EXCEPT ![nextConn] = clientID]
  /\ redials' = redials + 1
  /\ Resolve("ok", "none")
  /\ pc' = "swap_lock"
  /\ UNCHANGED <<sessVars, mu, subscriptions, expired, ev, after, idx, stream,
                 closed, delivered, sinkVars, emitted, pre, loopClosed, closeErrs,
                 callVars>>

\* A failed redial after which the loop keeps running.
RedialFailAfter_Retry == "recv"

\* After the SessionFailed of a failed redial: return.
RedialFailAfter == "done"

\* zookeeper.Redial returns an error: notifySubscribers(SessionFailed), return.
RedialFail ==
  /\ pc = "redial"
  /\ redials' = redials + 1
  /\ Resolve("fail", "SessionFailed")
  /\ Notify("SessionFailed", RedialFailAfter)
  /\ UNCHANGED <<sessVars, mu, subscriptions, expired, idx, newConn, netVars,
                 sinkVars, pre, loopClosed, closeErrs, callVars>>

\* The swap entered without taking the mutex.
SwapLock_NoMutex ==
  /\ pc = "swap_lock"
  /\ pc' = "swap_close"
  /\ UNCHANGED <<sessVars, mu, subscriptions, expired, ev, after, idx, newConn,
                 netVars, sinkVars, histVars, callVars>>

\* s.mu.Lock() of the swap.
SwapLock ==
  /\ pc = "swap_lock"
  /\ mu = "free"
  /\ mu' = "manage"
  /\ pc' = "swap_close"
  /\ UNCHANGED <<sessVars, subscriptions, expired, ev, after, idx, newConn,
                 netVars, sinkVars, histVars, callVars>>

\* A Close error of the old handle ends the loop.
SwapCloseAfter_Abort(err) == IF err THEN "done" ELSE "swap_install"

\* if err != nil { s.log.Printf(...) }: whatever Close returned, the swap
\* goes on to s.conn = conn.
SwapCloseAfter(err) == "swap_install"

\* The swap without the Close of the old handle.
SwapClose_Leak ==
  /\ pc = "swap_close"
  /\ pc' = "swap_install"
  /\ UNCHANGED <<sessVars, mu, subscriptions, expired, ev, after, idx, newConn,
                 netVars, sinkVars, histVars, callVars>>

\* if s.conn != nil { s.conn.Close() }: the error is logged only.
SwapClose ==
  /\ pc = "swap_close"
  /\ ConnClose(conn)
  /\ loopClosed' = loopClosed \cup {conn}
  /\ closeErrs' = IF closed[conn] THEN closeErrs \cup {conn} ELSE closeErrs
  /\ pc' = SwapCloseAfter(closed[conn])
  /\ UNCHANGED <<sessVars, mu, subscriptions, expired, ev, after, idx, newConn,
                 nextConn, dialToken, delivered, sinkVars, emitted, consumed,
                 redials, pre, callVars>>

\* s.conn = conn.
SwapInstall ==
  /\ pc = "swap_install"
  /\ conn' = newConn
  /\ pc' = "swap_events"
  /\ UNCHANGED <<events, clientID, mu, subscriptions, expired, ev, after, idx,
                 newConn, netVars, sinkVars, histVars, callVars>>

\* The swap without the write of s.events: manage reads the old stream on.
SwapEvents_Keep ==
  /\ pc = "swap_events"
  /\ pc' = "swap_token"
  /\ UNCHANGED <<sessVars, mu, subscriptions, expired, ev, after, idx, newConn,
                 netVars, sinkVars, histVars, callVars>>

\* s.events = events.
SwapEvents ==
  /\ pc = "swap_events"
  /\ events' = newConn
  /\ pc' = "swap_token"
  /\ UNCHANGED <<conn, clientID, mu, subscriptions, expired, ev, after, idx,
                 newConn, netVars, sinkVars, histVars, callVars>>

\* The swap without the update of the token.
SwapToken_Stale ==
  /\ pc = "swap_token"
  /\ pc' = "swap_unlock"
  /\ UNCHANGED <<sessVars, mu, subscriptions, expired, ev, after, idx, newConn,
                 netVars, sinkVars, histVars, callVars>>

\* s.opts = WithZookeeperClientID(conn.ClientId())(s.opts).
SwapToken ==
  /\ pc = "swap_token"
  /\ clientID' = ClientId(newConn)
  /\ pc' = "swap_unlock"
  /\ UNCHANGED <<conn, events, mu, subscriptions, expired, ev, after, idx,
                 newConn, netVars, sinkVars, histVars, callVars>>

\* s.mu.Unlock() of the swap; err is nil, so the loop goes on.
SwapUnlock ==
  /\ pc = "swap_unlock"
  /\ mu' = "free"
  /\ pc' = "recv"
  /\ UNCHANGED <<sessVars, subscriptions, expired, ev, after, idx, newConn,
                 netVars, sinkVars, histVars, callVars>>

\* STATE_AUTH_FAILED handled as a transient state: the loop goes on.
AuthFailedAfter_Continue == "recv"

\* After the SessionFailed of STATE_AUTH_FAILED: return.
AuthFailedAfter == "done"

\* case zookeeper.STATE_AUTH_FAILED: notifySubscribers(SessionFailed), return.
RecvAuthFailed ==
  /\ Receives("STATE_AUTH_FAILED")
  /\ Consume("STATE_AUTH_FAILED", "none", "SessionFailed")
  /\ Notify("SessionFailed", AuthFailedAfter)
  /\ UNCHANGED <<sessVars, mu, subscriptions, expired, idx, newConn, closed,
                 nextConn, dialToken, delivered, sinkVars, redials, pre,
                 loopClosed, closeErrs, callVars>>

\* case zookeeper.STATE_CONNECTING: notifySubscribers(SessionDisconnected).
RecvConnecting ==
  /\ Receives("STATE_CONNECTING")
  /\ Consume("STATE_CONNECTING", "none", "SessionDisconnected")
  /\ Notify("SessionDisconnected", "recv")
  /\ UNCHANGED <<sessVars, mu, subscriptions, expired, idx, newConn, closed,
                 nextConn, dialToken, delivered, sinkVars, redials, pre,
                 loopClosed, closeErrs, callVars>>

\* STATE_ASSOCIATING taken as the start of a fresh session: it clears expired.
RecvAssociating_ClearsExpired ==
  /\ Receives("STATE_ASSOCIATING")
  /\ Consume("STATE_ASSOCIATING", "none", "none")
  /\ expired' = FALSE
  /\ UNCHANGED <<sessVars, mu, subscriptions, pc, ev, after, idx, newConn,
                 closed, nextConn, dialToken, delivered, sinkVars, emitted,
                 redials, pre, loopClosed, closeErrs, callVars>>

\* case zookeeper.STATE_ASSOCIATING: no action.
RecvAssociating ==
  /\ Receives("STATE_ASSOCIATING")
  /\ Consume("STATE_ASSOCIATING", "none", "none")
  /\ UNCHANGED <<sessVars, mu, subscriptions, loopVars, closed, nextConn,
                 dialToken, delivered, sinkVars, emitted, redials, pre,
                 loopClosed, closeErrs, callVars>>

\* The two branches of STATE_CONNECTED exchanged.
ConnectedEvent_Swapped(exp) ==
  IF exp THEN "SessionReconnected" ELSE "SessionExpiredReconnected"

\* The event of case zookeeper.STATE_CONNECTED, by the expired flag.
ConnectedEvent(exp) ==
  IF exp THEN "SessionExpiredReconnected" ELSE "SessionReconnected"

\* The expired branch without its expired = false.
ConnectedAfter_NoClear(exp) == "recv"

\* What follows the notification of STATE_CONNECTED: expired = false in the
\* expired branch.
ConnectedAfter(exp) == IF exp THEN "clear" ELSE "recv"

\* case zookeeper.STATE_CONNECTED.
RecvConnected ==
  /\ Receives("STATE_CONNECTED")
  /\ Consume("STATE_CONNECTED", "none", ConnectedEvent(expired))
  /\ Notify(ConnectedEvent(expired), ConnectedAfter(expired))
  /\ UNCHANGED <<sessVars, mu, subscriptions, expired, idx, newConn, closed,
                 nextConn, dialToken, delivered, sinkVars, redials, pre,
                 loopClosed, closeErrs, callVars>>

\* STATE_CLOSED without the return: the loop goes on.
ClosedAfter_Continue == "recv"

\* After the SessionClosed of STATE_CLOSED: return.
ClosedAfter == "done"

\* case zookeeper.STATE_CLOSED: notifySubscribers(SessionClosed), return.
RecvClosed ==
  /\ Receives("STATE_CLOSED")
  /\ Consume("STATE_CLOSED", "none", "SessionClosed")
  /\ Notify("SessionClosed", ClosedAfter)
  /\ UNCHANGED <<sessVars, mu, subscriptions, expired, idx, newConn, closed,
                 nextConn, dialToken, delivered, sinkVars, redials, pre,
                 loopClosed, closeErrs, callVars>>

(***************************************************************************)
(* Pass-through methods: return s.conn.Op(...).                            *)
(***************************************************************************)

\* manage is between the Lock and the Unlock of the swap.
InSwap ==
  pc \in {"swap_close", "swap_install", "swap_events", "swap_token",
          "swap_unlock"}

\* The method evaluates s.conn; it takes no lock.
CallerRead(t, op) ==
  /\ cpc[t] = "idle"
  /\ calls < MaxCalls
  /\ calls' = calls + 1
  /\ cop' = [cop EXCEPT ![t] = op]
  /\ ch' = [ch EXCEPT ![t] = conn]
  /\ raced' = [raced EXCEPT ![t] = InSwap]
  /\ cpc' = [cpc EXCEPT ![t] = "call"]
  /\ UNCHANGED <<sessVars, mu, subscriptions, loopVars, netVars, sinkVars,
                 histVars, closeDone>>

\* A Close that also drops the session's resumption token.
CallerInvoke_DropsToken(t) ==
  /\ cpc[t] = "call"
  /\ cpc' = [cpc EXCEPT ![t] = "idle"]
  /\ IF cop[t] = "Close"
       THEN /\ ConnClose(ch[t])
            /\ closeDone' = (closeDone \/ ~closed[ch[t]])
            /\ clientID' = 0
       ELSE UNCHANGED <<stream, closed, closeDone, clientID>>
  /\ UNCHANGED <<conn, events, mu, subscriptions, loopVars, nextConn,
                 dialToken, delivered, sinkVars, histVars, cop, ch, raced,
                 calls>>

\* The method calls through on the handle it read; Close closes it.
CallerInvoke(t) ==
  /\ cpc[t] = "call"
  /\ cpc' = [cpc EXCEPT ![t] = "idle"]
  /\ IF cop[t] = "Close"
       THEN ConnClose(ch[t]) /\ closeDone' = (closeDone \/ ~closed[ch[t]])
       ELSE UNCHANGED <<stream, closed, closeDone>>
  /\ UNCHANGED <<sessVars, mu, subscriptions, loopVars, nextConn, dialToken,
                 delivered, sinkVars, histVars, cop, ch, raced, calls>>

(***************************************************************************)
(* Specifications.                                                         *)
(***************************************************************************)

Manage ==
  \/ RecvExpired \/ RedialOk \/ RedialFail
  \/ SwapLock \/ SwapClose \/ SwapInstall \/ SwapEvents \/ SwapToken
  \/ SwapUnlock
  \/ RecvAuthFailed \/ RecvConnecting \/ RecvAssociating
  \/ RecvConnected \/ RecvClosed
  \/ NotifyLock \/ NotifySend \/ NotifyReturn

Transport == \E c \in ConnIds, sig \in Signals : Deliver(c, sig)

SubscribersOf(S) ==
  \E i \in S :
    \/ SubscribeCall(i) \/ SubscribeLock(i) \/ SubscribeAppend(i)
    \/ ConsumerReceive(i)

Subscribers == SubscribersOf(Sinks)

PassThrough ==
  \E t \in Callers : (\E op \in Ops : CallerRead(t, op)) \/ CallerInvoke(t)

\* The loop, the transport and the subscribers.
Next == Manage \/ Transport \/ Subscribers

Spec == Init /\ [][Next]_vars

\* The transport in the runs that have callers.
TransportCalls == delivered < MaxCallSignals /\ Transport

\* The loop and the transport with callers of the pass-through methods and
\* one subscriber.
NextCalls == Manage \/ TransportCalls \/ SubscribersOf({"s1"}) \/ PassThrough

SpecCalls == Init /\ [][NextCalls]_vars

\* The loop, the transport and one subscriber.
NextFair == Manage \/ Transport \/ SubscribersOf({"s1"})

\* The same under fair scheduling: the goroutine of manage and a goroutine
\* inside Subscribe run on whenever they can, and the subscriber's consumer
\* comes back to receive.
SpecFair ==
  /\ Init /\ [][NextFair]_vars
  /\ WF_vars(Manage)
  /\ WF_vars(SubscribeAppend("s1"))
  /\ WF_vars(ConsumerReceive("s1"))

(***************************************************************************)
(* Properties.                                                             *)
(***************************************************************************)

Terminal == {"SessionClosed", "SessionFailed"}

Reconnects == {"SessionReconnected", "SessionExpiredReconnected"}

Last(q) == q[Len(q)]

Range(q) == {q[k] : k \in 1..Len(q)}

\* How often e occurs in q.
Count(q, e) == Cardinality({k \in 1..Len(q) : q[k] = e})

TerminalEmitted == emitted # <<>> /\ Last(emitted) \in Terminal

\* Sink i was appended to the list before the broadcast of the last event
\* acquired the mutex.
RegisteredBeforeLast(i) == spc[i] = "done" /\ subAt[i] < Len(emitted)

\* The events recorded for the consumed signals, in order.
RECURSIVE OutSeq(_, _)
OutSeq(q, k) ==
  IF k > Len(q) THEN <<>>
  ELSE (IF q[k].out = "none" THEN <<>> ELSE <<q[k].out>>) \o OutSeq(q, k + 1)

\* The expiries among the first k consumed signals.
ExpiriesUpTo(k) ==
  Cardinality({j \in 1..k : consumed[j].sig = "STATE_EXPIRED_SESSION"})

\* C1: once manage has emitted SessionClosed or SessionFailed it emits no
\* further event and consumes no further signal and has left or is leaving
\* the loop; the terminal event is the last element of every subscriber's
\* trace, and a subscriber registered after it receives nothing.
C1_TerminalEventIsLast ==
  /\ \A k \in 1..Len(emitted) : emitted[k] \in Terminal => k = Len(emitted)
  /\ \A k \in 1..Len(consumed) :
       consumed[k].out \in Terminal => k = Len(consumed)
  /\ \A i \in Sinks : \A k \in 1..Len(received[i]) :
       received[i][k] \in Terminal => k = Len(received[i])
  /\ TerminalEmitted <=>
       (pc = "done" \/ (pc \in {"notify_lock", "notify_send"} /\ after = "done"))
  /\ pc = "done" =>
       \A i \in Sinks :
         IF RegisteredBeforeLast(i)
           THEN received[i] # <<>> /\ Last(received[i]) = Last(emitted)
           ELSE received[i] = <<>>

\* C1's case: the loop has exited on a terminal event that one subscriber
\* received, a signal is still pending on the stream, and a subscriber that
\* registered afterwards waits in a receive with nothing received.
C1_Witness ==
  /\ pc = "done"
  /\ stream[events] # <<>>
  /\ \E i, j \in Sinks :
       /\ RegisteredBeforeLast(i) /\ Last(received[i]) \in Terminal
       /\ spc[j] = "done" /\ subAt[j] = Len(emitted) /\ ready[j]
       /\ received[j] = <<>>

\* The transition table of the specification applied to the signals q[k..],
\* with their redial outcomes, from the expired flag exp: the events it emits.
RECURSIVE Table(_, _, _)
Table(q, k, exp) ==
  IF k > Len(q) THEN <<>>
  ELSE
    CASE q[k].sig = "STATE_CONNECTING" ->
           <<"SessionDisconnected">> \o Table(q, k + 1, exp)
      [] q[k].sig = "STATE_ASSOCIATING" -> Table(q, k + 1, exp)
      [] q[k].sig = "STATE_CONNECTED" ->
           <<IF exp THEN "SessionExpiredReconnected" ELSE "SessionReconnected">>
             \o Table(q, k + 1, FALSE)
      [] q[k].sig = "STATE_EXPIRED_SESSION" ->
           IF q[k].redial = "fail" THEN <<"SessionFailed">>
           ELSE Table(q, k + 1, TRUE)
      [] q[k].sig = "STATE_AUTH_FAILED" -> <<"SessionFailed">>
      [] q[k].sig = "STATE_CLOSED" -> <<"SessionClosed">>

\* C2: the events manage has emitted are those the transition table gives
\* for the signals consumed and their redial outcomes, signal by signal; the
\* table is a function of these, so equal inputs give equal event sequences.
C2_EventsMatchTable == emitted = Table(consumed, 1, FALSE)

\* C2's case: a run of three signals through an expiry with a successful
\* redial and the reconnection that follows it.
C2_Witness ==
  /\ Len(consumed) = 3
  /\ consumed[1].redial = "ok"
  /\ "SessionExpiredReconnected" \in Range(emitted)
  /\ Len(emitted) = 2
  /\ pc \in {"recv", "done"}

\* The last expiry or reconnection consumed before position k (0: none).
LastFlagSignal(k) ==
  LET S == {j \in 1..(k - 1) :
              consumed[j].sig \in {"STATE_EXPIRED_SESSION", "STATE_CONNECTED"}}
  IN IF S = {} THEN 0 ELSE CHOOSE j \in S : \A m \in S : m <= j

\* C3: a Connected signal emits exactly one event: SessionExpiredReconnected
\* when the last expiry or reconnection consumed before it is an expiry
\* (whatever Connecting, Associating or further expiries come between),
\* SessionReconnected otherwise; and once its broadcast has returned the
\* expired flag is false.
C3_ExpiredReconnectedOnce ==
  /\ emitted = OutSeq(consumed, 1)
  /\ \A k \in 1..Len(consumed) :
       consumed[k].sig = "STATE_CONNECTED" =>
         LET j == LastFlagSignal(k) IN
           consumed[k].out =
             IF j # 0 /\ consumed[j].sig = "STATE_EXPIRED_SESSION"
               THEN "SessionExpiredReconnected" ELSE "SessionReconnected"
  /\ (pc = "recv" /\ LastFlagSignal(Len(consumed) + 1) # 0
        /\ consumed[LastFlagSignal(Len(consumed) + 1)].sig = "STATE_CONNECTED")
       => ~expired

\* C3's case: an expiry with a successful redial, a Connected signal that
\* emitted SessionExpiredReconnected and a second one that emitted
\* SessionReconnected.
C3_Witness ==
  /\ Len(consumed) = 3
  /\ consumed[1].sig = "STATE_EXPIRED_SESSION" /\ consumed[1].redial = "ok"
  /\ consumed[2].out = "SessionExpiredReconnected"
  /\ consumed[3].out = "SessionReconnected"
  /\ emitted = <<"SessionExpiredReconnected", "SessionReconnected">>
  /\ pc = "recv" /\ ~expired

RedialFailedLast ==
  /\ consumed # <<>>
  /\ Last(consumed).sig = "STATE_EXPIRED_SESSION"
  /\ Last(consumed).redial = "fail"

\* C4: after an expiry whose redial failed, manage has emitted exactly one
\* SessionFailed, as its last event, and is leaving or has left the loop
\* with no further redial; the handle, stream and token are those from
\* before the signal and manage has not closed the handle; once the loop has
\* exited, every subscriber registered before the broadcast holds that one
\* SessionFailed as its last event and every other one holds nothing.
C4_FailedRedialIsFinal ==
  RedialFailedLast =>
    /\ <<conn, events, clientID>> = pre
    /\ conn \notin loopClosed
    /\ Last(emitted) = "SessionFailed"
    /\ Count(emitted, "SessionFailed") = 1
    /\ pc \in {"notify_lock", "notify_send", "done"}
    /\ after = "done"
    /\ redials = ExpiriesUpTo(Len(consumed))
    /\ pc = "done" =>
         \A i \in Sinks :
           IF RegisteredBeforeLast(i)
             THEN /\ Last(received[i]) = "SessionFailed"
                  /\ Count(received[i], "SessionFailed") = 1
             ELSE received[i] = <<>>

\* C4's case: the loop has exited after a failed redial that followed a
\* successful one, one subscriber received SessionFailed, and a subscriber
\* registered afterwards waits in a receive with nothing received.
C4_Witness ==
  /\ pc = "done"
  /\ RedialFailedLast
  /\ redials = 2
  /\ \E i, j \in Sinks :
       /\ RegisteredBeforeLast(i) /\ Last(received[i]) = "SessionFailed"
       /\ spc[j] = "done" /\ subAt[j] = Len(emitted) /\ ready[j]
       /\ received[j] = <<>>

\* C5: an AuthFailed signal is the last signal manage consumes; it emits one
\* SessionFailed, the last event, with no redial, and manage leaves the loop.
C5_AuthFailedIsFinal ==
  \A k \in 1..Len(consumed) :
    consumed[k].sig = "STATE_AUTH_FAILED" =>
      /\ k = Len(consumed)
      /\ Last(emitted) = "SessionFailed"
      /\ Count(emitted, "SessionFailed") = 1
      /\ pc \in {"notify_lock", "notify_send", "done"}
      /\ after = "done"
      /\ redials = ExpiriesUpTo(k - 1)

\* C5's case: the loop has exited on AuthFailed, delivered to a subscriber,
\* while signals the transport delivered after it are pending on the stream.
C5_Witness ==
  /\ pc = "done"
  /\ Last(consumed).sig = "STATE_AUTH_FAILED"
  /\ Len(stream[events]) = 2
  /\ Head(stream[events]) \in {"STATE_CONNECTING", "STATE_CONNECTED"}
  /\ \E i \in Sinks : received[i] = <<"SessionFailed">>

\* C6: every registered subscriber has received a gap-free run of the
\* emitted sequence, in emission order, starting at the first broadcast that
\* began after its registration, and an unregistered one nothing: so two
\* subscribers registered before a broadcast see the same events in the same
\* order from it onwards.  The list is in registration order, and inside a
\* broadcast exactly the sinks before the current position have the event.
C6_SameOrderForAll ==
  /\ \A i \in Sinks :
       IF spc[i] = "done"
         THEN /\ subAt[i] + Len(received[i]) <= Len(emitted)
              /\ received[i] =
                   SubSeq(emitted, subAt[i] + 1, subAt[i] + Len(received[i]))
         ELSE received[i] = <<>>
  /\ \A j, k \in 1..Len(subscriptions) :
       j < k => subAt[subscriptions[j]] <= subAt[subscriptions[k]]
  /\ pc = "notify_send" =>
       \A j \in 1..Len(subscriptions) :
         subAt[subscriptions[j]] + Len(received[subscriptions[j]]) =
           IF j < idx THEN Len(emitted) ELSE Len(emitted) - 1

\* C6's case: two subscribers, the second registered one broadcast after the
\* first, have received three and two events.
C6_Witness ==
  \E i, j \in Sinks :
    /\ subAt[i] = 0 /\ subAt[j] = 1
    /\ Len(received[i]) = 3 /\ Len(received[j]) = 2
    /\ received[i][1] # received[i][2]

\* C7: no pass-through method reads s.conn while manage is between the Lock
\* and the Unlock of the swap that closes the old handle and installs the
\* new one.
C7_HandleReadExcludesSwap == \A t \in Callers : ~raced[t]

\* C8: once a caller's Close() has returned without error, the Closed signal is pending on
\* the stream manage reads, or manage has consumed it, or manage has exited.
C8_CloseReachesLoop ==
  closeDone =>
    \/ pc = "done"
    \/ "STATE_CLOSED" \in Range(stream[events])
    \/ consumed # <<>> /\ Last(consumed).sig = "STATE_CLOSED"

\* C9: each SessionReconnected or SessionExpiredReconnected event emitted is
\* preceded by a SessionDisconnected event with no other reconnection event
\* between the two.
C9_ReconnectFollowsDisconnect ==
  \A k \in 1..Len(emitted) :
    emitted[k] \in Reconnects =>
      \E j \in 1..(k - 1) :
        /\ emitted[j] = "SessionDisconnected"
        /\ \A m \in (j + 1)..(k - 1) : emitted[m] \notin Reconnects

\* Every registered subscriber has received every event emitted since its
\* registration.
AllDelivered ==
  \A i \in Sinks :
    spc[i] = "done" => subAt[i] + Len(received[i]) = Len(emitted)

\* The broadcast is at a sink whose consumer is not receiving.
SendBlocked ==
  /\ pc = "notify_send"
  /\ idx <= Len(subscriptions)
  /\ ~ready[subscriptions[idx]]

\* C10: the sends of a broadcast are made holding s.mu, so no Subscribe is
\* past its Lock meanwhile; outside a broadcast (where alone manage consumes
\* a signal) every registered subscriber has every event emitted so far; and
\* while the sink the broadcast is at is not receiving, no step completes
\* the broadcast, releases the mutex, consumes a signal, emits or delivers
\* an event, or registers a subscriber.
C10_BroadcastBlocksUnderMutex ==
  /\ [](/\ pc = "notify_send" => mu = "manage"
        /\ \A i \in Sinks : spc[i] = "append" <=> mu = i
        /\ pc \notin {"notify_lock", "notify_send"} => AllDelivered)
  /\ [][SendBlocked =>
          /\ pc' = "notify_send" /\ idx' = idx /\ mu' = "manage"
          /\ consumed' = consumed /\ emitted' = emitted
          /\ received' = received /\ subscriptions' = subscriptions]_vars

\* C10's case: the broadcast of a second event stands at a sink that is not
\* receiving, while a signal is pending on the stream and a Subscribe call
\* waits for the mutex.
C10_Witness ==
  /\ SendBlocked
  /\ Len(emitted) = 2
  /\ stream[events] # <<>>
  /\ \E i \in Sinks : spc[i] = "lock"

\* The connections dialed and not closed by manage.
Active == {c \in 1..(nextConn - 1) : c \notin loopClosed}

\* manage holds the connection Redial returned and has not yet closed the
\* old one.
BeforeSwapClose == pc \in {"swap_lock", "swap_close"}

\* C11 as stated: in every reachable state exactly one connection is dialed
\* and not closed by the session.
C11_ExactlyOneActiveAlways == Cardinality(Active) = 1

\* C11, amended: the current handle is the one connection dialed and not
\* closed by manage, except from the return of a successful Redial to the
\* Close of the old handle inside the swap, where the old handle and the new
\* connection are both open; once the old handle is closed, and so whenever
\* the swap section has been left, only one is.
C11_OneActiveOutsideRedial ==
  /\ ~BeforeSwapClose =>
       Active = {IF pc = "swap_install" THEN newConn ELSE conn}
  /\ BeforeSwapClose => Active = {conn, newConn} /\ conn # newConn

\* C11's case: two successful redials have been made and the loop reads on.
C11_Witness ==
  /\ pc = "recv"
  /\ Cardinality(loopClosed) = 2
  /\ conn = 3

\* An expiry has been consumed and no Connected signal since.
ExpiryOutstanding ==
  LET j == LastFlagSignal(Len(consumed) + 1) IN
    j # 0 /\ consumed[j].sig = "STATE_EXPIRED_SESSION"

\* manage is inside the notifySubscribers call of the expired branch of
\* STATE_CONNECTED, before its expired = false.
InExpiredReconnectedBroadcast ==
  pc \in {"notify_lock", "notify_send"} /\ after = "clear"

\* C12 as stated: in every reachable state the expired flag is true exactly
\* when an expiry has been consumed and no Connected signal since.
C12_ExpiredIffOutstandingAlways == expired <=> ExpiryOutstanding

\* C12, amended: the same outside the broadcast of SessionExpiredReconnected;
\* during that broadcast the Connected signal has been consumed and the flag
\* is still true, and it is cleared when the broadcast returns.
C12_ExpiredIffOutstanding ==
  IF InExpiredReconnectedBroadcast
    THEN expired /\ ~ExpiryOutstanding
         /\ Last(consumed).sig = "STATE_CONNECTED"
         /\ Last(emitted) = "SessionExpiredReconnected"
    ELSE expired <=> ExpiryOutstanding

\* C12's case: after an expiry and the reconnection that cleared the flag, a
\* second expiry has set it again and its swap is being completed.
C12_Witness ==
  /\ Len(consumed) = 3
  /\ consumed[1].sig = "STATE_EXPIRED_SESSION"
  /\ consumed[2].sig = "STATE_CONNECTED"
  /\ consumed[3].sig = "STATE_EXPIRED_SESSION"
  /\ pc = "swap_unlock"
  /\ expired

\* C13: a step of Subscribe or of a pass-through method, whether the call
\* succeeds or returns an error, leaves s.conn, s.events, the token and the
\* expired flag as they are and emits no event; every step that changes one
\* of the four is a step of manage.
C13_OnlyLoopWritesSession ==
  [][/\ (spc' # spc \/ cpc' # cpc \/ calls' # calls) =>
          UNCHANGED <<conn, events, clientID, expired, emitted>>
     /\ <<conn, events, clientID, expired>>' # <<conn, events, clientID, expired>>
          => (pc' # pc /\ spc' = spc /\ cpc' = cpc)]_vars

\* C13's case: after a redial, a Subscribe has returned and a Close() made
\* on the discarded handle has returned an error.
C13_Witness ==
  /\ \E t \in Callers :
       /\ cop[t] = "Close" /\ cpc[t] = "idle" /\ ch[t] # conn
       /\ ch[t] \in loopClosed
  /\ calls = 1
  /\ ~closeDone
  /\ spc["s1"] = "done"
  /\ pc = "recv"

\* The token the session holds once k connections have been dialed: the
\* constructor's before any redial, then that of the last connection dialed.
LastKnownToken(k) == IF k = 1 THEN 0 ELSE ClientId(k)

\* C14: each redial, failed ones included, is made with the last-known
\* token: the constructor's for the first, and afterwards the ClientId of
\* the connection the preceding successful redial returned; that token is
\* in s.opts before the swap releases the mutex.
C14_RedialUsesLastToken ==
  /\ \A c \in 2..(nextConn - 1) : dialToken[c] = LastKnownToken(c - 1)
  /\ pc = "redial" => clientID = LastKnownToken(nextConn - 1)
  /\ pc = "swap_unlock" => mu = "manage" /\ clientID = ClientId(newConn)
  /\ pc \in {"swap_lock", "swap_close", "swap_install", "swap_events",
             "swap_token"} => clientID = dialToken[newConn]

\* C14's case: after two successful redials, the second made with the token
\* of the first one's connection, a third expiry is about to redial with the
\* token of the second one's.
C14_Witness ==
  /\ pc = "redial"
  /\ nextConn = 4
  /\ dialToken[3] = ClientId(2)
  /\ clientID = ClientId(3)

\* Handle, stream and token come from one dial.
SameDial == conn = events /\ clientID = LastKnownToken(conn)

\* C15: manage holds the mutex from before the Close of the old handle to
\* after the write of the token; handle, stream and token are of different
\* dials only between the writes of that section, so whoever else holds the
\* mutex sees the three of one dial; and the old handle is closed in the
\* section before the new one is installed.
C15_SwapInOneCriticalSection ==
  /\ InSwap => mu = "manage"
  /\ pc \notin {"swap_events", "swap_token"} => SameDial
  /\ \A i \in Sinks : mu = i => SameDial
  /\ pc \in {"swap_lock", "swap_close"} => conn = pre[1] /\ conn \notin loopClosed
  /\ pc = "swap_install" =>
       conn = pre[1] /\ conn \in loopClosed /\ closed[conn]
  /\ pc \in {"swap_events", "swap_token", "swap_unlock"} =>
       conn = newConn /\ conn # pre[1] /\ pre[1] \in loopClosed

\* C15's case: after a swap a Subscribe holds the mutex and finds the new
\* handle, its stream and its token, the old handle closed, while another
\* swap waits for the mutex.
C15_Witness ==
  /\ \E i \in Sinks : mu = i
  /\ conn = 2 /\ events = 2 /\ clientID = ClientId(2)
  /\ closed[1]
  /\ pc = "swap_lock"

\* C16: a Close error of the old handle changes nothing of the swap: the
\* handle whose Close failed is replaced by the connection just dialed, with
\* its stream and token; the events emitted are those of the transition
\* table for the signals consumed, which has none for the error; and manage
\* leaves the loop only on a terminal event of a consumed signal.
C16_CloseErrorSwallowed ==
  /\ \A c \in closeErrs :
       /\ c \in loopClosed
       /\ IF c = conn THEN pc = "swap_install" /\ newConn = c + 1 ELSE c < conn
  /\ pc \in {"recv", "redial", "notify_lock", "notify_send", "done"} =>
       SameDial /\ conn = nextConn - 1
  /\ emitted = Table(consumed, 1, FALSE)
  /\ pc = "done" => TerminalEmitted /\ Last(consumed).out = Last(emitted)

\* C16's case: the Close of the old handle returned an error in a swap, the
\* new handle, stream and token are installed, and manage has consumed the
\* Connected signal of the new stream and emitted SessionExpiredReconnected
\* alone.
C16_Witness ==
  /\ closeErrs = {1}
  /\ pc = "recv"
  /\ conn = 2 /\ events = 2 /\ clientID = ClientId(2)
  /\ Len(consumed) = 2
  /\ emitted = <<"SessionExpiredReconnected">>

NotAssociating(r) == r.sig # "STATE_ASSOCIATING"

\* The consumed signals without the Associating ones.
StripAssoc(q) == SelectSeq(q, NotAssociating)

\* The step consumes an Associating signal.
ConsumesAssociating ==
  /\ Len(consumed') = Len(consumed) + 1
  /\ Last(consumed').sig = "STATE_ASSOCIATING"

\* C17: a step that consumes an Associating signal emits nothing and leaves
\* the expired flag, the handle, the stream reference and the token as they
\* are, and manage goes on reading; and the events emitted are always those
\* the transition table gives for the consumed signals with the Associating
\* ones removed.
C17_AssociatingIsNoOp ==
  /\ [](emitted = Table(StripAssoc(consumed), 1, FALSE))
  /\ [][ConsumesAssociating =>
          /\ UNCHANGED <<emitted, expired, conn, events, clientID, mu>>
          /\ pc = "recv" /\ pc' = "recv"]_vars

\* C17's case: an Associating signal consumed with the expired flag true,
\* between an expiry and the Connected signal that then emitted
\* SessionExpiredReconnected.
C17_Witness ==
  /\ Len(consumed) = 3
  /\ consumed[1].sig = "STATE_EXPIRED_SESSION"
  /\ consumed[2].sig = "STATE_ASSOCIATING"
  /\ consumed[3].sig = "STATE_CONNECTED"
  /\ emitted = <<"SessionExpiredReconnected">>
  /\ pc = "recv" /\ ~expired

\* The step consumes a signal.
ConsumesSignal == Len(consumed') = Len(consumed) + 1

\* C18: manage reads the stream of the last connection dialed, never one of
\* a handle it closed; a consumed signal is the head of that stream; and the
\* stream of a handle manage closed keeps what is pending on it, the Closed
\* signal of that Close at its end, for the rest of the run.
C18_DiscardedStreamNeverRead ==
  /\ [](/\ pc = "recv" => events = nextConn - 1 /\ events \notin loopClosed
        /\ \A c \in loopClosed :
             /\ c < events \/ (c = events /\ pc \in {"swap_install", "swap_events"})
             /\ stream[c] # <<>> /\ Last(stream[c]) = "STATE_CLOSED")
  /\ [][/\ \A c \in loopClosed : stream'[c] = stream[c]
        /\ ConsumesSignal =>
             /\ events \notin loopClosed
             /\ Last(consumed').sig = Head(stream[events])
             /\ stream' = [stream EXCEPT ![events] = Tail(@)]]_vars

\* C18's case: the discarded stream holds a pending signal and the Closed
\* signal of the swap's Close, and manage has consumed the Connected signal
\* of the new stream, emitted SessionExpiredReconnected and reads on.
C18_Witness ==
  /\ loopClosed = {1}
  /\ Len(stream[1]) = 2 /\ stream[1][2] = "STATE_CLOSED"
  /\ events = 2
  /\ Len(consumed) = 2 /\ Last(consumed).sig = "STATE_CONNECTED"
  /\ emitted = <<"SessionExpiredReconnected">>
  /\ pc = "recv"

\* The position of a registered sink in s.subscriptions.
Pos(i) == CHOOSE k \in 1..Len(subscriptions) : subscriptions[k] = i

\* The last emitted event has not reached registered sink i yet: its
\* broadcast waits for the mutex or has not come to i's position.
Pending(i) ==
  IF pc = "notify_lock" \/ (pc = "notify_send" /\ Pos(i) >= idx) THEN 1 ELSE 0

\* C19: a sink is in the list exactly once its Subscribe has returned; the
\* append is made holding the mutex, outside every broadcast; a registered
\* sink holds exactly the events from the first broadcast that acquired the
\* mutex after its Subscribe did, up to the last one that has reached it, in
\* emission order; an event it receives is the one being broadcast, whose
\* broadcast acquired the mutex after its Subscribe did; and a sink not yet
\* registered holds nothing.
C19_SubscriberGetsSuffix ==
  /\ [](\A i \in Sinks :
          /\ spc[i] = "done" <=> i \in Range(subscriptions)
          /\ Count(subscriptions, i) <= 1
          /\ IF spc[i] = "done"
               THEN /\ subAt[i] <= Len(emitted) - Pending(i)
                    /\ received[i] =
                         SubSeq(emitted, subAt[i] + 1, Len(emitted) - Pending(i))
               ELSE received[i] = <<>>)
  /\ [][\A i \in Sinks :
          /\ (spc[i] # "done" /\ spc'[i] = "done") =>
               /\ mu = i /\ pc # "notify_send"
               /\ subAt'[i] = BroadcastsBegun
               /\ emitted' = emitted
          /\ received'[i] # received[i] =>
               /\ pc = "notify_send" /\ mu = "manage" /\ spc[i] = "done"
               /\ subAt[i] < Len(emitted)
               /\ received'[i] = Append(received[i], Last(emitted))]_vars

\* C19's case: a Subscribe that returned between the first and the second
\* broadcast holds the second event alone while the third broadcast has
\* reached the earlier subscriber and not yet this one.
C19_Witness ==
  \E i, j \in Sinks :
    /\ subAt[i] = 0 /\ subAt[j] = 1
    /\ Len(emitted) = 3
    /\ pc = "notify_send" /\ idx = 2
    /\ received[i] = emitted
    /\ received[j] = <<emitted[2]>>
    /\ emitted[1] # emitted[2]

\* The stream manage reads holds a Closed or AuthFailed signal with no
\* expiry before it, and manage is not about to replace the stream; or the
\* redial of the last expiry has failed.
TerminalDue ==
  \/ RedialFailedLast
  \/ /\ pc \in {"recv", "notify_lock", "notify_send", "swap_token", "swap_unlock"}
     /\ \E k \in 1..Len(stream[events]) :
          /\ stream[events][k] \in {"STATE_CLOSED", "STATE_AUTH_FAILED"}
          /\ \A j \in 1..(k - 1) : stream[events][j] # "STATE_EXPIRED_SESSION"

\* C20: under fair scheduling with a subscriber that comes back to receive,
\* once a terminal signal is due on the stream manage reads, manage emits a
\* terminal event and leaves the loop; and while a broadcast stands at a
\* sink that is not receiving, a step that is not that consumer's receive
\* leaves it there, manage holding the mutex inside the loop, so without the
\* receive it stays for ever.
C20_TerminatesUnlessBlocked ==
  /\ TerminalDue ~> (pc = "done" /\ TerminalEmitted /\ mu # "manage")
  /\ [][(SendBlocked /\ ready' = ready) =>
          /\ SendBlocked' /\ mu' = "manage" /\ pc' # "done"
          /\ idx' = idx /\ emitted' = emitted /\ consumed' = consumed]_vars

\* C20's case: a Closed signal has been consumed after a reconnection and
\* the broadcast of SessionClosed stands, holding the mutex, at the
\* subscriber, who received the earlier event and is not receiving now.
C20_Witness ==
  /\ SendBlocked
  /\ after = "done"
  /\ ev = "SessionClosed"
  /\ mu = "manage"
  /\ Len(emitted) = 2
  /\ received["s1"] = <<emitted[1]>>

====
